---- MODULE Spec2Model ----
(***************************************************************************)
(* Lap timer for the ATmega128 (src/LapTimer.c).                           *)
(*                                                                         *)
(* One main flow (main: inputController; outputBest; forever) and one      *)
(* interrupt source (TIMER1_COMPA, once per timer period).  The main flow  *)
(* is cut into steps at the places where the interrupt can be observed:    *)
(* the reads of the clock fields and of TCNT1 inside the two ATOMIC_BLOCKs *)
(* are steps of their own; everything else of a handler that touches no    *)
(* state shared with the interrupt is one step.                            *)
(*                                                                         *)
(* The heap is a small array of node cells.  malloc does not initialise    *)
(* memory, so the contents of every cell at start-up are indeterminate:    *)
(* Init draws them from GarbageNodes.  A pointer is a cell address or NULL.*)
(***************************************************************************)
EXTENDS Integers, Sequences, FiniteSets, TLC

----------------------------------------------------------------------------
(* Bounds of the model *)

MaxAddr == 2        \* heap cells 1..MaxAddr
TimerTop == 2       \* timer counts per second (OCR1A = F_CPU/64 in the source, scaled down)
MaxTicks == 1       \* compare matches allowed in one run of Spec
MaxStarts == 2      \* runner-start events allowed in one run
MaxList == 2        \* longest registry drawn by InitFn
RolloverTicks == 61 \* compare matches allowed in one run of SpecClock

(* Program constants *)

Byte == 256         \* uint8_t arithmetic is modulo 2^8
NULL == 0
LastSec == 59       \* incClock: sec < 59

Addr == 1..MaxAddr
Ptr == Addr \cup {NULL}
RunnerIds == {5, 9}            \* values read from PINE
RolloverMins == {0, 100, 255}  \* minutes at the start of a run of SpecClock
GarbageBytes == {0, 255}       \* indeterminate bytes: cleared or erased cells

----------------------------------------------------------------------------
(* Data types *)

ZeroTime == [min |-> 0, sec |-> 0, hSec |-> 0]
ZeroRunner == [id |-> 0, running |-> 0, time |-> ZeroTime]

GarbageTimes == {[min |-> b, sec |-> b, hSec |-> b] : b \in GarbageBytes}
GarbageRunners == {[id |-> t.min, running |-> t.min, time |-> t] : t \in GarbageTimes}
GarbageNodes ==
    {[runner |-> r, prev |-> NULL, next |-> n] : r \in GarbageRunners, n \in Ptr}

VARIABLES
    clock,          \* time_type clock
    tcnt,           \* TCNT1
    ocf,            \* OCF1A: compare match interrupt pending
    timerOn,        \* CS10|CS11 set in TCCR1B
    iflag,          \* global interrupt enable (SREG I)
    sreg,           \* I bit saved by ATOMIC_RESTORESTATE
    heap,           \* Addr -> runner_node
    live,           \* cells handed out by malloc and not freed
    runnerListHead,
    prev,           \* static prev of addRunner
    clockRunning,   \* static of inputController
    currentRunner,  \* static of inputController
    lapTime,        \* local of the finish branch
    averageTime,    \* local of inputController
    sortingArray, listSize, i, j,   \* locals of sortedByTime
    current,        \* list cursor of a traversal that does not end
    PORTA,
    pc,             \* position of the main flow
    ticksLeft,      \* compare matches the run may still take
    clock0,         \* the clock at Init
    started,        \* ids of the runner-start events so far, in arrival order
    PIND4           \* PIND bit 4 as line 188 read it last

vars == <<clock, tcnt, ocf, timerOn, iflag, sreg, heap, live, runnerListHead, prev,
          clockRunning, currentRunner, lapTime, averageTime, sortingArray, listSize,
          i, j, current, PORTA, pc, ticksLeft, clock0, started, PIND4>>

hwVars == <<clock, tcnt, ocf, ticksLeft>>
listVars == <<heap, live, runnerListHead, prev>>
sortVars == <<sortingArray, listSize, i, j>>

----------------------------------------------------------------------------
(* Linked list *)

\* the cells visited from p along next, at most fuel of them
RECURSIVE Path(_, _, _)
Path(h, p, fuel) ==
    IF p = NULL \/ fuel = 0 THEN <<>>
    ELSE <<p>> \o Path(h, h[p].next, fuel - 1)

\* a traversal from p never reaches NULL
Cyclic(h, p) == Len(Path(h, p, MaxAddr + 1)) > MaxAddr

Nodes(h, p) == Path(h, p, MaxAddr)

Range(s) == {s[k] : k \in 1..Len(s)}

Reachable(h, p) == Range(Nodes(h, p))

\* the runner records of the list from p
Runners(h, p) == [k \in 1..Len(Nodes(h, p)) |-> h[Nodes(h, p)[k]].runner]

Min(S) == CHOOSE x \in S : \A y \in S : x <= y

malloc(lv) == IF Addr \ lv = {} THEN NULL ELSE Min(Addr \ lv)

----------------------------------------------------------------------------
(* Clock *)

incClockLateReset(t, cnt) ==
    IF t.sec <= LastSec
    THEN [t EXCEPT !.sec = @ + 1, !.hSec = cnt % Byte]
    ELSE [min |-> (t.min + 1) % Byte, sec |-> 0, hSec |-> cnt % Byte]

incClockNoCarry(t, cnt) ==
    IF t.sec < LastSec
    THEN [t EXCEPT !.sec = @ + 1, !.hSec = cnt % Byte]
    ELSE [min |-> t.min, sec |-> 0, hSec |-> cnt % Byte]

incClock(t, cnt) ==
    IF t.sec < LastSec
    THEN [t EXCEPT !.sec = @ + 1, !.hSec = cnt % Byte]
    ELSE [min |-> (t.min + 1) % Byte, sec |-> 0, hSec |-> cnt % Byte]

\* ATOMIC_BLOCK(ATOMIC_RESTORESTATE): the I bit inside the block
AtomicEnterOpen(flag) == flag

AtomicEnter(flag) == FALSE

\* an enabled pending interrupt is taken before the next instruction
NoIrq == ~(ocf /\ iflag)

\* the timer counts while its prescaler is on; a compare match clears it (CTC)
HwCount ==
    /\ timerOn
    /\ NoIrq
    /\ IF tcnt + 1 < TimerTop
       THEN /\ tcnt' = tcnt + 1
            /\ UNCHANGED <<ocf, ticksLeft>>
       ELSE /\ ticksLeft > 0
            /\ tcnt' = 0
            /\ ocf' = TRUE
            /\ ticksLeft' = ticksLeft - 1
    /\ UNCHANGED <<clock, timerOn, iflag, sreg, heap, live, runnerListHead, prev,
                   clockRunning, currentRunner, lapTime, averageTime, sortingArray,
                   listSize, i, j, current, PORTA, pc, clock0, started, PIND4>>

\* ISR(TIMER1_COMPA_vect)
Tick ==
    /\ ocf
    /\ iflag
    /\ clock' = incClock(clock, tcnt)
    /\ ocf' = FALSE
    /\ UNCHANGED <<tcnt, timerOn, iflag, sreg, heap, live, runnerListHead, prev,
                   clockRunning, currentRunner, lapTime, averageTime, sortingArray,
                   listSize, i, j, current, PORTA, pc, ticksLeft, clock0, started, PIND4>>

----------------------------------------------------------------------------
(* Pure functions of the ranking engine *)

getTimeInSecWide(runner) == runner.time.min * 60 + runner.time.sec

\* uint8_t getTimeInSec(runner_type): the sum is cut to 8 bits by the return type
getTimeInSec(runner) == (runner.time.min * 60 + runner.time.sec) % Byte

RECURSIVE SumOf(_, _)
SumOf(s, f) == IF s = <<>> THEN 0 ELSE s[1].time[f] + SumOf(Tail(s), f)

Finished(rs) == SelectSeq(rs, LAMBDA r : r.running = 0)

\* averageLapTime over the list from head: the values it can return.  The
\* local averageTime is assigned only when runners > 1 and is returned either
\* way, so with fewer finishers the result is indeterminate.
averageLapTime(h, head) ==
    LET fin == Finished(Runners(h, head))
        runners == Len(fin) % Byte
        total == [min |-> SumOf(fin, "min") % Byte,
                  sec |-> SumOf(fin, "sec") % Byte,
                  hSec |-> SumOf(fin, "hSec") % Byte]
        tempSec == (total.min * 60 + total.sec) % Byte
        averSec == tempSec \div runners
    IN  IF runners > 1
        THEN {[min |-> averSec \div 60, sec |-> averSec % 60,
               hSec |-> total.hSec \div runners]}
        ELSE GarbageTimes

\* the while loop of outputBest from cur; ends = FALSE when it never leaves
RECURSIVE scanBest(_, _, _, _, _)
scanBest(h, cur, bestTimeID, bestTimeSec, fuel) ==
    IF cur = NULL THEN [ends |-> TRUE, id |-> bestTimeID]
    ELSE IF h[cur].runner.running # 0 THEN [ends |-> TRUE, id |-> bestTimeID]
    ELSE IF fuel = 0 THEN [ends |-> FALSE, id |-> bestTimeID]
    ELSE LET timeInSec == getTimeInSec(h[cur].runner)
         IN  IF bestTimeSec > timeInSec
             THEN scanBest(h, h[cur].next, h[cur].runner.id, timeInSec, fuel - 1)
             ELSE scanBest(h, h[cur].next, bestTimeID, bestTimeSec, fuel - 1)

outputBest(h, head) ==
    scanBest(h, head, h[head].runner.id, getTimeInSec(h[head].runner), MaxAddr)

\* addRunner on a list that ends: the last node is overwritten with the
\* runner; the node malloc returns is stored in its next and dropped again
addRunner(h, head, runner, pv) ==
    LET path == Nodes(h, head)
        last == path[Len(path)]
    IN  [h EXCEPT ![last] = [runner |-> runner, prev |-> pv, next |-> NULL]]

lastNode(h, head) == Nodes(h, head)[Len(Nodes(h, head))]

\* one iteration of the inner loop of sortedByTime at C index jj (both in bounds)
swapStep(arr, jj) ==
    LET time1 == getTimeInSec(arr[jj + 1])
        time2 == getTimeInSec(arr[jj])
    IN  IF time2 > time1
        THEN [arr EXCEPT ![jj] = arr[jj + 1], ![jj + 1] = arr[jj]]
        ELSE arr

\* for (j = 1; j <= ii; j++) with ii inside the array
RECURSIVE innerLoop(_, _, _)
innerLoop(arr, jj, ii) ==
    IF jj > ii THEN arr ELSE innerLoop(swapStep(arr, jj), jj + 1, ii)

----------------------------------------------------------------------------
(* Start-up: main() before its loop *)

\* the heap before the first malloc: every cell holds indeterminate bytes.
\* Cells that no chain of next pointers from the head cell reaches are never
\* read, so they are drawn as cleared cells only.
ClearedNode == [runner |-> ZeroRunner, prev |-> NULL, next |-> NULL]

InitHeaps ==
    {h \in [Addr -> GarbageNodes] :
        \A a \in Addr : a \notin Reachable(h, 1) => h[a] = ClearedNode}

InitMain ==
    /\ clock = ZeroTime
    /\ clock0 = ZeroTime
    /\ tcnt = 0
    /\ ocf = FALSE
    /\ timerOn = FALSE
    /\ iflag = TRUE
    /\ sreg = TRUE
    /\ heap \in InitHeaps
    /\ live = {1}
    /\ runnerListHead = 1
    /\ prev = NULL
    /\ clockRunning = 0
    /\ currentRunner = ZeroRunner
    /\ lapTime = ZeroTime
    /\ averageTime = ZeroTime
    /\ sortingArray = <<>>
    /\ listSize = 0
    /\ i = 0
    /\ j = 0
    /\ current = NULL
    /\ PORTA = 0
    /\ pc = "ctl"
    /\ started = <<>>
    /\ PIND4 = FALSE

Init ==
    /\ InitMain
    /\ ticksLeft = MaxTicks

----------------------------------------------------------------------------
(* inputController: the race start/stop line (PIND bit 0) *)

\* TCCR1B after stopTimer and after startTimer: the prescaler bits CS10 and
\* CS11 cleared, and set
stopTimerKeepsBits(cs) == cs

stopTimer(cs) == FALSE

startTimer(cs) == TRUE

\* bit 0 set while the clock runs: clockRunning = 0
StopBegin ==
    /\ pc = "ctl"
    /\ NoIrq
    /\ clockRunning # 0
    /\ clockRunning' = 0
    /\ pc' = "stop"
    /\ UNCHANGED <<clock, tcnt, ocf, ticksLeft, clock0, timerOn, iflag, sreg, heap,
                   live, runnerListHead, prev, currentRunner, lapTime, averageTime,
                   sortingArray, listSize, i, j, current, PORTA, started, PIND4>>

\* stopTimer, averageLapTime, sortedByTime up to and including freeRunnerList.
\* On a list whose next pointers form a cycle the while loop of averageLapTime
\* does not end.
StopRace ==
    /\ pc = "stop"
    /\ NoIrq
    /\ timerOn' = stopTimer(timerOn)
    /\ IF Cyclic(heap, runnerListHead)
       THEN /\ pc' = "loop"
            /\ current' = runnerListHead
            /\ UNCHANGED <<averageTime, sortingArray, listSize, i, j, live>>
       ELSE /\ averageTime' \in averageLapTime(heap, runnerListHead)
            /\ listSize' = Len(Nodes(heap, runnerListHead)) % Byte
            /\ sortingArray' = Runners(heap, runnerListHead)
            /\ live' = live \ Reachable(heap, runnerListHead)
            /\ i' = (listSize' - 1) % Byte
            /\ pc' = "sort"
            /\ UNCHANGED <<j, current>>
    /\ PIND4' = FALSE    \* line 188 is not reached, in this poll or later
    /\ UNCHANGED <<clock, tcnt, ocf, ticksLeft, clock0, iflag, sreg, heap,
                   runnerListHead, prev, clockRunning, currentRunner, lapTime,
                   PORTA, started>>

\* bit 0 set while the clock is stopped: startTimer, clockRunning = 1.  One
\* step: TCNT1 is 0 when the timer is started (initTimer), so no compare match
\* falls between the two statements.
StartRace ==
    /\ pc = "ctl"
    /\ NoIrq
    /\ clockRunning = 0
    /\ timerOn' = startTimer(timerOn)
    /\ clockRunning' = 1
    /\ pc' = "runner"
    /\ UNCHANGED <<clock, tcnt, ocf, ticksLeft, clock0, iflag, sreg, heap, live,
                   runnerListHead, prev, currentRunner, lapTime, averageTime,
                   sortingArray, listSize, i, j, current, PORTA, started, PIND4>>

\* bit 0 clear
NoRaceSignal ==
    /\ pc = "ctl"
    /\ NoIrq
    /\ pc' = "runner"
    /\ UNCHANGED <<clock, tcnt, ocf, ticksLeft, clock0, timerOn, iflag, sreg, heap,
                   live, runnerListHead, prev, clockRunning, currentRunner, lapTime,
                   averageTime, sortingArray, listSize, i, j, current, PORTA, started, PIND4>>

----------------------------------------------------------------------------
(* sortedByTime after freeRunnerList *)

\* one pass of the outer loop with i inside the array.  The loop condition
\* i >= 0 holds for every uint8_t value.
SortOuterPass ==
    /\ pc = "sort"
    /\ NoIrq
    /\ i >= 0
    /\ i < listSize
    /\ sortingArray' = innerLoop(sortingArray, 1, i)
    /\ j' = i + 1
    /\ i' = (i - 1) % Byte
    /\ UNCHANGED <<clock, tcnt, ocf, ticksLeft, clock0, timerOn, iflag, sreg, heap,
                   live, runnerListHead, prev, clockRunning, currentRunner, lapTime,
                   averageTime, listSize, current, PORTA, pc, started, PIND4>>

\* i has wrapped from 0 to 255: the outer loop goes on and enters the inner loop
SortOuterWrapped ==
    /\ pc = "sort"
    /\ NoIrq
    /\ i >= 0
    /\ i >= listSize
    /\ j' = 1
    /\ pc' = "sortInner"
    /\ UNCHANGED <<clock, tcnt, ocf, ticksLeft, clock0, timerOn, iflag, sreg, heap,
                   live, runnerListHead, prev, clockRunning, currentRunner, lapTime,
                   averageTime, sortingArray, listSize, i, current, PORTA, started, PIND4>>

\* the inner loop with i = 255: j <= i holds for every uint8_t j.  Elements
\* outside the array are indeterminate; an element that is swapped with one
\* takes its value.  The iterations from j = listSize + 1 up to the wrap of j,
\* which touch no element of the array, are one step.
SortInnerSpin ==
    /\ pc = "sortInner"
    /\ NoIrq
    /\ j <= i
    /\ IF 1 <= j /\ j < listSize
       THEN sortingArray' = swapStep(sortingArray, j)
       ELSE IF j = listSize /\ listSize >= 1
       THEN \E g \in GarbageRunners :
                sortingArray' =
                    IF getTimeInSec(sortingArray[listSize]) > getTimeInSec(g)
                    THEN [sortingArray EXCEPT ![listSize] = g]
                    ELSE sortingArray
       ELSE IF j = 0 /\ listSize >= 1
       THEN \E g \in GarbageRunners :
                sortingArray' =
                    IF getTimeInSec(g) > getTimeInSec(sortingArray[1])
                    THEN [sortingArray EXCEPT ![1] = g]
                    ELSE sortingArray
       ELSE UNCHANGED sortingArray
    /\ j' = IF j > listSize THEN 0 ELSE (j + 1) % Byte
    /\ UNCHANGED <<clock, tcnt, ocf, ticksLeft, clock0, timerOn, iflag, sreg, heap,
                   live, runnerListHead, prev, clockRunning, currentRunner, lapTime,
                   averageTime, listSize, i, current, PORTA, pc, started, PIND4>>

\* a while loop over a list that does not end
LoopForever ==
    /\ pc = "loop"
    /\ NoIrq
    /\ current' = heap[current].next
    /\ UNCHANGED <<clock, tcnt, ocf, ticksLeft, clock0, timerOn, iflag, sreg, heap,
                   live, runnerListHead, prev, clockRunning, currentRunner, lapTime,
                   averageTime, sortingArray, listSize, i, j, PORTA, pc, started, PIND4>>

----------------------------------------------------------------------------
(* inputController: the runner start/finish line (PIND bit 4) *)

\* the condition of line 188: PIND & (1 << 4) && clockRunning
RunnerEventAnyClock(bit4, running) == bit4

RunnerEvent(bit4, running) == bit4 /\ running # 0

\* bit 4 clear, or the clock is not running
NoRunnerEvent ==
    /\ pc = "runner"
    /\ NoIrq
    /\ \E bit4 \in BOOLEAN :
        /\ ~RunnerEvent(bit4, clockRunning)
        /\ PIND4' = bit4
    /\ pc' = "output"
    /\ UNCHANGED <<clock, tcnt, ocf, ticksLeft, clock0, timerOn, iflag, sreg, heap,
                   live, runnerListHead, prev, clockRunning, currentRunner, lapTime,
                   averageTime, sortingArray, listSize, i, j, current, PORTA, started>>

\* bit 4 set, clock running, currentRunner.running set: enter the ATOMIC_BLOCK
FinishBegin ==
    /\ pc = "runner"
    /\ NoIrq
    /\ RunnerEvent(TRUE, clockRunning)
    /\ PIND4' = TRUE
    /\ currentRunner.running # 0
    /\ sreg' = iflag
    /\ iflag' = AtomicEnter(iflag)
    /\ pc' = "fin_min"
    /\ UNCHANGED <<clock, tcnt, ocf, ticksLeft, clock0, timerOn, heap, live,
                   runnerListHead, prev, clockRunning, currentRunner, lapTime,
                   averageTime, sortingArray, listSize, i, j, current, PORTA, started>>

\* lapTime.min = clock.min - currentRunner.time.min
FinishReadMin ==
    /\ pc = "fin_min"
    /\ NoIrq
    /\ lapTime' = [lapTime EXCEPT !.min = (clock.min - currentRunner.time.min) % Byte]
    /\ pc' = "fin_sec"
    /\ UNCHANGED <<clock, tcnt, ocf, ticksLeft, clock0, timerOn, iflag, sreg, heap,
                   live, runnerListHead, prev, clockRunning, currentRunner,
                   averageTime, sortingArray, listSize, i, j, current, PORTA, started, PIND4>>

\* lapTime.sec = clock.sec - currentRunner.time.sec
FinishReadSec ==
    /\ pc = "fin_sec"
    /\ NoIrq
    /\ lapTime' = [lapTime EXCEPT !.sec = (clock.sec - currentRunner.time.sec) % Byte]
    /\ pc' = "fin_hSec"
    /\ UNCHANGED <<clock, tcnt, ocf, ticksLeft, clock0, timerOn, iflag, sreg, heap,
                   live, runnerListHead, prev, clockRunning, currentRunner,
                   averageTime, sortingArray, listSize, i, j, current, PORTA, started, PIND4>>

\* lapTime.hSec = TCNT1 - currentRunner.time.hSec; the block ends and SREG is
\* restored; currentRunner.time = lapTime; currentRunner.running = 0
FinishReadTCNT ==
    /\ pc = "fin_hSec"
    /\ NoIrq
    /\ iflag' = sreg
    /\ currentRunner' =
           [currentRunner EXCEPT
               !.time = [lapTime EXCEPT !.hSec = (tcnt - currentRunner.time.hSec) % Byte],
               !.running = 0]
    /\ lapTime' = ZeroTime
    /\ pc' = "output"
    /\ UNCHANGED <<clock, tcnt, ocf, ticksLeft, clock0, timerOn, sreg, heap, live,
                   runnerListHead, prev, clockRunning, averageTime, sortingArray,
                   listSize, i, j, current, PORTA, started, PIND4>>

\* bit 4 set, clock running, currentRunner.running clear: running = 1, id = PINE,
\* enter the ATOMIC_BLOCK
StartBegin ==
    /\ pc = "runner"
    /\ NoIrq
    /\ RunnerEvent(TRUE, clockRunning)
    /\ PIND4' = TRUE
    /\ currentRunner.running = 0
    /\ Len(started) < MaxStarts
    /\ \E pine \in RunnerIds :
        /\ currentRunner' = [currentRunner EXCEPT !.running = 1, !.id = pine]
        /\ started' = Append(started, pine)
    /\ sreg' = iflag
    /\ iflag' = AtomicEnter(iflag)
    /\ pc' = "st_min"
    /\ UNCHANGED <<clock, tcnt, ocf, ticksLeft, clock0, timerOn, heap, live,
                   runnerListHead, prev, clockRunning, lapTime, averageTime,
                   sortingArray, listSize, i, j, current, PORTA>>

\* currentRunner.time = clock, field by field (the fields are volatile)
StartReadMin ==
    /\ pc = "st_min"
    /\ NoIrq
    /\ currentRunner' = [currentRunner EXCEPT !.time.min = clock.min]
    /\ pc' = "st_sec"
    /\ UNCHANGED <<clock, tcnt, ocf, ticksLeft, clock0, timerOn, iflag, sreg, heap,
                   live, runnerListHead, prev, clockRunning, lapTime, averageTime,
                   sortingArray, listSize, i, j, current, PORTA, started, PIND4>>

StartReadSec ==
    /\ pc = "st_sec"
    /\ NoIrq
    /\ currentRunner' = [currentRunner EXCEPT !.time.sec = clock.sec]
    /\ pc' = "st_hSec"
    /\ UNCHANGED <<clock, tcnt, ocf, ticksLeft, clock0, timerOn, iflag, sreg, heap,
                   live, runnerListHead, prev, clockRunning, lapTime, averageTime,
                   sortingArray, listSize, i, j, current, PORTA, started, PIND4>>

StartReadHSec ==
    /\ pc = "st_hSec"
    /\ NoIrq
    /\ currentRunner' = [currentRunner EXCEPT !.time.hSec = clock.hSec]
    /\ pc' = "st_tcnt"
    /\ UNCHANGED <<clock, tcnt, ocf, ticksLeft, clock0, timerOn, iflag, sreg, heap,
                   live, runnerListHead, prev, clockRunning, lapTime, averageTime,
                   sortingArray, listSize, i, j, current, PORTA, started, PIND4>>

\* currentRunner.time.hSec = TCNT1; the block ends and SREG is restored;
\* addRunner(runnerListHead, currentRunner).  On a list whose next pointers
\* form a cycle the while loop of addRunner does not end.
StartReadTCNT ==
    /\ pc = "st_tcnt"
    /\ NoIrq
    /\ currentRunner' = [currentRunner EXCEPT !.time.hSec = tcnt % Byte]
    /\ iflag' = sreg
    /\ IF Cyclic(heap, runnerListHead)
       THEN /\ pc' = "loop"
            /\ current' = runnerListHead
            /\ UNCHANGED <<heap, live, prev>>
       ELSE /\ heap' = addRunner(heap, runnerListHead, currentRunner', prev)
            /\ live' = live \cup ({malloc(live)} \ {NULL})
            /\ prev' = lastNode(heap, runnerListHead)
            /\ pc' = "output"
            /\ UNCHANGED current
    /\ UNCHANGED <<clock, tcnt, ocf, ticksLeft, clock0, timerOn, sreg,
                   runnerListHead, clockRunning, lapTime, averageTime,
                   sortingArray, listSize, i, j, PORTA, started, PIND4>>

----------------------------------------------------------------------------
(* outputBest *)

\* the list is not empty (runnerListHead # NULL): scan it and write PORTA.  On
\* a cycle of finished entries the while loop does not end.
OutputBest ==
    /\ pc = "output"
    /\ NoIrq
    /\ runnerListHead # NULL
    /\ LET res == outputBest(heap, runnerListHead)
       IN  IF res.ends
           THEN /\ PORTA' = res.id
                /\ pc' = "ctl"
                /\ UNCHANGED current
           ELSE /\ pc' = "loop"
                /\ current' = runnerListHead
                /\ UNCHANGED PORTA
    /\ UNCHANGED <<clock, tcnt, ocf, ticksLeft, clock0, timerOn, iflag, sreg, heap,
                   live, runnerListHead, prev, clockRunning, currentRunner, lapTime,
                   averageTime, sortingArray, listSize, i, j, started, PIND4>>

\* the list is empty: nothing is written
OutputNone ==
    /\ pc = "output"
    /\ NoIrq
    /\ runnerListHead = NULL
    /\ pc' = "ctl"
    /\ UNCHANGED <<clock, tcnt, ocf, ticksLeft, clock0, timerOn, iflag, sreg, heap,
                   live, runnerListHead, prev, clockRunning, currentRunner, lapTime,
                   averageTime, sortingArray, listSize, i, j, current, PORTA, started, PIND4>>

----------------------------------------------------------------------------
(* The program *)

\* the steps of the main flow once the race has been started
RaceSteps ==
    \/ StopBegin \/ StopRace \/ NoRaceSignal
    \/ NoRunnerEvent
    \/ FinishBegin \/ FinishReadMin \/ FinishReadSec \/ FinishReadTCNT
    \/ StartBegin \/ StartReadMin \/ StartReadSec \/ StartReadHSec \/ StartReadTCNT
    \/ SortOuterPass \/ SortOuterWrapped \/ SortInnerSpin
    \/ LoopForever
    \/ OutputBest

Next == HwCount \/ Tick \/ StartRace \/ RaceSteps

Spec == Init /\ [][Next]_vars

\* the processor keeps executing: the main flow takes its next step, and a
\* pending compare match is served once interrupts are enabled
SpecLive == Init /\ [][Next]_vars /\ WF_vars(StartRace \/ RaceSteps) /\ WF_vars(Tick)

----------------------------------------------------------------------------
(* The race after 59 seconds of polling without a runner event *)

InitLate ==
    /\ clock = [min |-> 0, sec |-> LastSec, hSec |-> 0]
    /\ clock0 = clock
    /\ tcnt \in 0..(TimerTop - 1)
    /\ ocf = FALSE
    /\ timerOn = TRUE
    /\ iflag = TRUE
    /\ sreg = TRUE
    /\ heap \in {h \in InitHeaps : outputBest(h, 1).ends}
    /\ live = {1}
    /\ runnerListHead = 1
    /\ prev = NULL
    /\ clockRunning = 1
    /\ currentRunner = ZeroRunner
    /\ lapTime = ZeroTime
    /\ averageTime = ZeroTime
    /\ sortingArray = <<>>
    /\ listSize = 0
    /\ i = 0
    /\ j = 0
    /\ current = NULL
    /\ PORTA = outputBest(heap, 1).id
    /\ pc = "ctl"
    /\ started = <<>>
    /\ PIND4 = FALSE
    /\ ticksLeft = MaxTicks

NextLate == HwCount \/ Tick \/ RaceSteps

SpecLate == InitLate /\ [][NextLate]_vars

----------------------------------------------------------------------------
(* The clock alone: the race runs and only the timer acts *)

InitClock ==
    /\ clock \in {[min |-> m, sec |-> 0, hSec |-> x] :
                    m \in RolloverMins, x \in 0..(TimerTop - 1)}
    /\ clock0 = clock
    /\ tcnt = 0
    /\ ocf = FALSE
    /\ timerOn = TRUE
    /\ iflag = TRUE
    /\ sreg = TRUE
    /\ heap = [a \in Addr |-> ClearedNode]
    /\ live = {1}
    /\ runnerListHead = 1
    /\ prev = NULL
    /\ clockRunning = 1
    /\ currentRunner = ZeroRunner
    /\ lapTime = ZeroTime
    /\ averageTime = ZeroTime
    /\ sortingArray = <<>>
    /\ listSize = 0
    /\ i = 0
    /\ j = 0
    /\ current = NULL
    /\ PORTA = 0
    /\ pc = "ctl"
    /\ started = <<>>
    /\ PIND4 = FALSE
    /\ ticksLeft = RolloverTicks

NextClock == HwCount \/ Tick

SpecClock == InitClock /\ [][NextClock]_vars

\* tick() calls since Init in a run of SpecClock
TicksDone == RolloverTicks - ticksLeft - (IF ocf THEN 1 ELSE 0)

----------------------------------------------------------------------------
(* The reporting and ranking functions on registries of up to MaxList runners *)

FnTimes == {[min |-> 0, sec |-> 20, hSec |-> 0], [min |-> 0, sec |-> 35, hSec |-> 0],
            [min |-> 0, sec |-> 50, hSec |-> 0], [min |-> 5, sec |-> 0, hSec |-> 0]}

\* registries of n runners; the k-th started runner has id k
FnLists(n) ==
    {[k \in 1..n |-> [id |-> k, running |-> f[k][1], time |-> f[k][2]]] :
        f \in [1..n -> {0, 1} \X FnTimes]}

\* the linked list of the runners rs in cells 1..Len(rs)
ListHeap(rs) ==
    [a \in Addr |->
        IF a <= Len(rs)
        THEN [runner |-> rs[a], prev |-> a - 1,
              next |-> IF a = Len(rs) THEN NULL ELSE a + 1]
        ELSE ClearedNode]

InitFn ==
    /\ \E n \in 0..MaxList : \E rs \in FnLists(n) :
        /\ heap = ListHeap(rs)
        /\ live = 1..n
        /\ runnerListHead = IF n = 0 THEN NULL ELSE 1
        /\ prev = IF n = 0 THEN NULL ELSE n
    /\ clock = ZeroTime
    /\ clock0 = ZeroTime
    /\ tcnt = 0
    /\ ocf = FALSE
    /\ timerOn = TRUE
    /\ iflag = TRUE
    /\ sreg = TRUE
    /\ clockRunning = 1
    /\ currentRunner = ZeroRunner
    /\ lapTime = ZeroTime
    /\ averageTime = ZeroTime
    /\ sortingArray = <<>>
    /\ listSize = 0
    /\ i = 0
    /\ j = 0
    /\ current = NULL
    /\ PORTA = 0
    /\ pc = "output"
    /\ started = <<>>
    /\ PIND4 = FALSE
    /\ ticksLeft = 0

NextFn ==
    \/ OutputBest \/ OutputNone
    \/ StopBegin \/ StopRace
    \/ SortOuterPass \/ SortOuterWrapped \/ SortInnerSpin

SpecFn == InitFn /\ [][NextFn]_vars

----------------------------------------------------------------------------
(* Properties *)

\* the main flow is between two handlers' steps, not inside a runner start
StartPcs == {"st_min", "st_sec", "st_hSec", "st_tcnt"}
FinishPcs == {"fin_min", "fin_sec", "fin_hSec"}
AtomicPcs == StartPcs \cup FinishPcs

RegistryIds == [k \in 1..Len(Nodes(heap, runnerListHead)) |->
                    Runners(heap, runnerListHead)[k].id]

\* C1: after N >= 2 runner-start events with distinct ids, traversing the
\* registry from its head yields exactly the N started runners, in arrival
\* order.
C1_AppendKeepsArrivalOrder ==
    (/\ Len(started) >= 2
     /\ Cardinality(Range(started)) = Len(started)
     /\ pc \in {"ctl", "runner", "output"})
        => RegistryIds = started

\* C2: once the in-flight runner has finished, the registry entry appended at
\* its start has isRunning = false and holds the lap time finish - start.
C2_FinishRecordedInRegistry ==
    (prev # NULL /\ currentRunner.running = 0 /\ pc \in {"ctl", "runner", "output"})
        => /\ heap[prev].runner.running = 0
           /\ heap[prev].runner.time = currentRunner.time

\* C3: once the race has been stopped and the ranking passes are done, the
\* registry reachable from runnerListHead is the ranked sequence.
C3_StopInstallsRanking ==
    (pc = "sort" /\ i >= listSize)
        => /\ Reachable(heap, runnerListHead) \subseteq live
           /\ Runners(heap, runnerListHead) = sortingArray
           /\ \A k \in 1..(Len(sortingArray) - 1) :
                getTimeInSec(sortingArray[k]) <= getTimeInSec(sortingArray[k + 1])

\* C4: whenever outputBest writes the output byte once a runner has started,
\* the written id is the id of a finished registry entry.
C4_OutputIsFinishedRunner ==
    [][(pc = "output" /\ pc' = "ctl" /\ Len(started) >= 1)
        => \E k \in 1..Len(Runners(heap, runnerListHead)) :
              /\ Runners(heap, runnerListHead)[k].id = PORTA'
              /\ Runners(heap, runnerListHead)[k].running = 0]_vars

\* the finished entries outputBest scans: those before the first running one
RECURSIVE ScannedPrefix(_)
ScannedPrefix(rs) ==
    IF rs = <<>> \/ rs[1].running # 0 THEN <<>>
    ELSE <<rs[1]>> \o ScannedPrefix(Tail(rs))

\* C5: the id outputBest writes is the id of a scanned finished runner whose
\* minutes*60+seconds is the minimum among the scanned finished runners.
C5_OutputIsMinimum ==
    [][(pc = "output" /\ pc' = "ctl")
        => LET sc == ScannedPrefix(Runners(heap, runnerListHead))
           IN  sc # <<>> =>
                 \E k \in 1..Len(sc) :
                    /\ sc[k].id = PORTA'
                    /\ \A m \in 1..Len(sc) :
                          getTimeInSecWide(sc[k]) <= getTimeInSecWide(sc[m])]_vars

\* C6: for a registry of finished runners, the sequence sortedByTime has
\* ranked lists them in non-decreasing order of minutes*60+seconds.
C6_RankingNonDecreasing ==
    (pc = "sort" /\ i >= listSize /\ \A k \in 1..Len(sortingArray) :
                                        sortingArray[k].running = 0)
        => \A k \in 1..(Len(sortingArray) - 1) :
              getTimeInSecWide(sortingArray[k]) <= getTimeInSecWide(sortingArray[k + 1])

\* C7: the tick handler never runs between the controller's reads of the
\* clock in a start or finish, and the minutes and seconds sampled are those
\* of the clock at the instant the block ends.
C7_ClockReadsAtomic ==
    [][/\ pc \in AtomicPcs => clock' = clock
       /\ (pc = "st_tcnt" /\ pc' # pc)
            => /\ currentRunner'.time.min = clock'.min
               /\ currentRunner'.time.sec = clock'.sec
       /\ (pc = "fin_hSec" /\ pc' # pc)
            => /\ currentRunner'.time.min = (clock'.min - currentRunner.time.min) % Byte
               /\ currentRunner'.time.sec = (clock'.sec - currentRunner.time.sec) % Byte
      ]_vars

\* a compare match is pending and held back inside the block before the last read
C7_Witness == pc \in {"st_sec", "st_hSec", "st_tcnt", "fin_sec", "fin_hSec"} /\ ocf /\ ~iflag

\* C8: the seconds of the clock are in 0..59 in every reachable state.
C8_SecondsInRange == clock.sec \in 0..LastSec

\* the clock has gone from 59 seconds to 0 while a runner is in flight
C8_Witness ==
    /\ clock0.sec = LastSec
    /\ clock.sec = 0
    /\ clock.min = (clock0.min + 1) % Byte
    /\ currentRunner.running # 0

\* C9: from {m,0,x}, fewer than 60 ticks leave minutes at m, and exactly 60
\* ticks leave seconds = 0 and minutes = m+1 modulo 256.
C9_Rollover ==
    /\ TicksDone < 60 => (clock.min = clock0.min /\ clock.sec = TicksDone)
    /\ TicksDone = 60 => (clock.sec = 0 /\ clock.min = (clock0.min + 1) % Byte)

\* 60 ticks from {255,0,x}
C9_Witness == clock0.min = 255 /\ TicksDone = 60 /\ clock.min = 0 /\ clock.sec = 0

\* C10: averageLapTime returns the zero timestamp when the registry holds 0 or
\* 1 finished runners.
C10_AverageOfFewIsZero ==
    [][(pc = "stop" /\ pc' = "sort"
        /\ Len(Finished(Runners(heap, runnerListHead))) <= 1)
        => averageTime' = ZeroTime]_vars

\* C11: with N >= 2 finished runners averageLapTime returns floor(S/N) as
\* minutes and seconds, S being the exact sum of minutes*60+seconds over the
\* finished runners.
C11_AverageIsFloorOfSum ==
    [][(pc = "stop" /\ pc' = "sort"
        /\ Len(Finished(Runners(heap, runnerListHead))) >= 2)
        => LET fin == Finished(Runners(heap, runnerListHead))
               S == SumOf(fin, "min") * 60 + SumOf(fin, "sec")
               avg == S \div Len(fin)
           IN  /\ averageTime'.min = avg \div 60
               /\ averageTime'.sec = avg % 60]_vars

\* C12: the runner line is edge-significant: when the previous poll read the
\* line asserted and toggled the slot (every such read toggles once a runner
\* has started, the clock running from then on), a poll that reads the line
\* still asserted does not toggle the slot or append again.
C12_HeldLineTogglesOnce ==
    [][(pc = "runner" /\ PIND4 /\ started # <<>>)
        => pc' \notin {"st_min", "fin_min"}]_vars

\* the steps of a poll in which the clock is not running where line 188 stands:
\* the runner branch of an idle poll, and the poll that stops the race
IdlePollStep ==
    \/ pc = "runner" /\ clockRunning = 0 /\ pc' # pc
    \/ pc = "ctl" /\ pc' = "stop"
    \/ pc = "stop" /\ pc' # pc

\* C14 as stated: a poll with the clock not running at the runner branch, the
\* poll that stops the race included, leaves the registry and the in-flight
\* runner slot unchanged.
C14_IdlePollKeepsRegistry ==
    [][IdlePollStep => UNCHANGED <<heap, live, runnerListHead, prev,
                                   currentRunner>>]_vars

\* C14 amended: such a poll records no runner event: the in-flight slot, the
\* contents and links of the registry nodes and the list of started runners
\* stay as they are; the stopping poll releases the nodes of the registry.
C14_IdlePollRecordsNoRunner ==
    [][IdlePollStep => UNCHANGED <<heap, runnerListHead, prev, currentRunner,
                                   started>>]_vars

\* an idle poll has just read the runner line asserted
C14_Witness == pc = "output" /\ clockRunning = 0 /\ PIND4

\* C15 as stated: the prescaler is enabled exactly when clockRunning is set,
\* and while clockRunning is clear the tick handler does not fire: the clock's
\* minutes and seconds stay as they are.
C15_StoppedClockFrozen ==
    /\ [](timerOn <=> clockRunning # 0)
    /\ [][clockRunning = 0 => (clock'.min = clock.min /\ clock'.sec = clock.sec)]_vars

\* C15 amended: the prescaler is enabled exactly when clockRunning is set,
\* except in the stopping poll between clockRunning = 0 and stopTimer; while
\* the prescaler is off the counter stands still, the tick handler does not
\* fire and the clock's minutes and seconds stay as they are.
C15_StoppedTimerFrozen ==
    /\ []((timerOn <=> clockRunning # 0) \/ pc = "stop")
    /\ [][~timerOn => (clock' = clock /\ tcnt' = tcnt /\ ~ocf')]_vars

\* the race has been stopped after the clock advanced
C15_Witness == ~timerOn /\ clockRunning = 0 /\ pc = "sortInner" /\ clock # clock0

\* C16: as long as no runner start has been recorded since startup, outputBest
\* does not write the best-runner output.
C16_NoOutputBeforeFirstStart ==
    [][started = <<>> => PORTA' = PORTA]_vars

\* C17: a timestamp the controller has stored in a runner record, a start time
\* or a lap duration, has its seconds in 0..59.
C17_StoredSecondsInRange ==
    (started # <<>> /\ pc \in {"ctl", "runner", "output"})
        => currentRunner.time.sec \in 0..LastSec

\* C18: every invocation of inputController terminates, the one that stops the
\* race included: once the stop branch is entered the main flow reaches the
\* call of outputBest that follows inputController in the main loop.
C18_StopPollReturns == (pc = "stop") ~> (pc = "output")

C20_SampleIsOneInstant ==
    [][(pc \in {"st_tcnt", "fin_hSec"} /\ pc' # pc) => ~ocf]_vars

====
